---- MODULE Spec2Model ----
(***************************************************************************)
(* Model of keras_retinanet/callbacks/eval.py: the Evaluate callback.      *)
(*                                                                         *)
(* A Python number is the pair <<n, d>> of the rational n/d in lowest      *)
(* terms.  Float results are rounded to Precision significant bits, round  *)
(* half to even, as IEEE-754 arithmetic does (Python floats carry 53       *)
(* bits); integer operands enter an operation exactly, as the annotation   *)
(* counts of a dataset do.  A dict is the set of its <<key, value>> items. *)
(***************************************************************************)
EXTENDS Integers, Sequences, FiniteSets

\* ------------------------------------------------------------------ bounds
MaxClasses == 2
MaxEpochs  == 2
Precision  == 3

\* ------------------------------------------------------- Python arithmetic
RECURSIVE Gcd(_, _)
Gcd(a, b) == IF b = 0 THEN a ELSE Gcd(b, a % b)

Num(n, d) == LET g == Gcd(n, d) IN <<n \div g, d \div g>>

FromInt(n) == <<n, 1>>

\* The float nearest to n/d (n >= 0, d > 0), ties to the even significand.
RECURSIVE RoundToFloat(_, _)
RoundToFloat(n, d) ==
    IF n = 0 THEN <<0, 1>>
    ELSE IF n >= (2 ^ Precision) * d
         THEN LET r == RoundToFloat(n, 2 * d) IN Num(2 * r[1], r[2])
    ELSE IF n < (2 ^ (Precision - 1)) * d
         THEN LET r == RoundToFloat(2 * n, d) IN Num(r[1], 2 * r[2])
    ELSE LET q   == n \div d
             rem == n % d
             up  == 2 * rem > d \/ (2 * rem = d /\ q % 2 = 1)
         IN  FromInt(IF up THEN q + 1 ELSE q)

float_add(x, y) == RoundToFloat(x[1] * y[2] + y[1] * x[2], x[2] * y[2])

float_mul(x, y) == RoundToFloat(x[1] * y[1], x[2] * y[2])

\* x / y for y # 0; the caller raises ZeroDivisionError when y = 0.
float_truediv(x, y) == RoundToFloat(x[1] * y[2], x[2] * y[1])

\* sum(xs): a left fold that starts from the integer 0.
RECURSIVE py_sum_to(_, _)
py_sum_to(xs, k) ==
    IF k = 0 THEN FromInt(0)
    ELSE IF k = 1 THEN xs[1]
    ELSE float_add(py_sum_to(xs, k - 1), xs[k])

py_sum(xs) == py_sum_to(xs, Len(xs))

\* sum of a list of integers (exact).
RECURSIVE py_sum_int_to(_, _)
py_sum_int_to(ns, k) == IF k = 0 THEN 0 ELSE py_sum_int_to(ns, k - 1) + ns[k]

py_sum_int(ns) == py_sum_int_to(ns, Len(ns))

\* ------------------------------------------------------------ Python dicts
Keys(d) == {kv[1] : kv \in d}

Get(d, k) == (CHOOSE kv \in d : kv[1] = k)[2]

SetItem(d, k, v) == {kv \in d : kv[1] # k} \cup {<<k, v>>}

PyNone == [none |-> TRUE, items |-> {}]

PyDict(d) == [none |-> FALSE, items |-> d]

\* bool(x) of an argument that is None or a dict.
Truthy(l) == ~l.none /\ l.items # {}

\* --------------------------------------------------------- bounded inputs
\* What evaluate() can return for one class: (average_precision, num_annotations).
APs == {<<1, 2>>, <<3, 4>>}

Counts == {0, 2, 3}

ClassResults == APs \X Counts

\* average_precisions: one entry per label 0 .. k-1, in label order
\* (entry i of the sequence is label i - 1).
AveragePrecisions == UNION {[1..k -> ClassResults] : k \in 0..MaxClasses}

\* (recall, precision) arrays returned by evaluate().
Curves == { << <<FromInt(0), <<1, 2>>, FromInt(1)>>, <<FromInt(1), <<1, 2>>, <<3, 4>>>> >>,
            << << <<1, 2>> >>, << <<1, 4>> >> >> }

EvaluateResults ==
    {[average_precisions |-> ap, recall |-> c[1], precision |-> c[2]] :
        ap \in AveragePrecisions, c \in Curves}

\* The logs argument a caller passes: None (the default), an empty dict, the
\* epoch's metrics, or metrics to which an earlier callback already added mAP.
LogsArguments ==
    { PyNone,
      PyDict({}),
      PyDict({<<"loss", <<1, 2>>>>}),
      PyDict({<<"loss", <<1, 2>>>>, <<"mAP", <<1, 4>>>>}) }

\* An attribute that has not been assigned yet.
NoAttr == << <<>> >>

\* No evaluation has run in the current call yet.
NoResult == [average_precisions |-> <<>>, recall |-> <<>>, precision |-> <<>>]

\* ------------------------------------------------------------------ state
VARIABLES
    config,              \* the fields __init__ sets
    recall,              \* self.recall
    precision,           \* self.precision
    mean_ap,             \* self.mean_ap
    pc,                  \* "init", "called", "returned" or "raised"
    raised,              \* the exception on_epoch_end raised, "" if none
    epochs,              \* number of on_epoch_end calls made so far
    caller_logs,         \* the caller's own logs object (None or a dict)
    logs_before,         \* caller_logs as it was when the call was made
    logs,                \* the handler's local name logs
    evaluated,           \* what evaluate() returned to this call
    printed,             \* lines this call wrote to standard output
    emitted,             \* summaries this call wrote to the sink
    completed_mean_ap    \* mean_ap as left by the last call that returned

vars == <<config, recall, precision, mean_ap, pc, raised, epochs, caller_logs,
          logs_before, logs, evaluated, printed, emitted,
          completed_mean_ap>>

\* __init__: the defaults of the signature, with the three settings that
\* on_epoch_end branches on left to the caller.
Init ==
    /\ config \in {[generator        |-> "generator",
                    iou_threshold    |-> <<1, 2>>,
                    score_threshold  |-> <<1, 20>>,
                    max_detections   |-> 100,
                    save_path        |-> "None",
                    tensorboard      |-> tb,
                    weighted_average |-> w,
                    verbose          |-> v] :
                       tb \in BOOLEAN, w \in BOOLEAN, v \in 0..2}
    /\ recall = NoAttr
    /\ precision = NoAttr
    /\ mean_ap = NoAttr
    /\ pc = "init"
    /\ raised = ""
    /\ epochs = 0
    /\ caller_logs = PyNone
    /\ logs_before = PyNone
    /\ logs = {}
    /\ evaluated = NoResult
    /\ printed = <<>>
    /\ emitted = <<>>
    /\ completed_mean_ap = NoAttr

\* ---------------------------------------------------------- on_epoch_end
\* logs = logs or {}
bind_logs(l) == IF Truthy(l) THEN l.items ELSE {}

\* The lists the loop over average_precisions.items() builds.
total_instances_of(ap) == [i \in 1..Len(ap) |-> ap[i][2]]

precisions_of(ap) == [i \in 1..Len(ap) |-> ap[i][1]]

\* Variant: the products lose their weights.
weighted_terms_without_weights(ti, pr) == pr

\* [a * b for a, b in zip(total_instances, precisions)]
weighted_terms(ti, pr) == [i \in 1..Len(ti) |-> float_mul(FromInt(ti[i]), pr[i])]

\* Variant: divides by the number of classes.
weighted_denominator_class_count(ti) == Len(ti)

\* sum(total_instances)
weighted_denominator(ti) == py_sum_int(ti)

\* Variant: the count of annotated classes is guarded against zero.
unweighted_denominator_guarded(ti) ==
    LET c == Cardinality({i \in 1..Len(ti) : ti[i] > 0})
    IN  IF c = 0 THEN 1 ELSE c

\* sum(x > 0 for x in total_instances)
unweighted_denominator(ti) == Cardinality({i \in 1..Len(ti) : ti[i] > 0})

denominator(weighted, ti) ==
    IF weighted THEN weighted_denominator(ti) ELSE unweighted_denominator(ti)

numerator(weighted, ti, pr) ==
    IF weighted THEN py_sum(weighted_terms(ti, pr)) ELSE py_sum(pr)

\* Variant: the field keeps the best value seen over the epochs.
compute_mean_ap_keep_best(weighted, ti, pr) ==
    LET new == float_truediv(numerator(weighted, ti, pr),
                             FromInt(denominator(weighted, ti)))
    IN  IF mean_ap = NoAttr \/ new[1] * mean_ap[2] >= mean_ap[1] * new[2]
        THEN new ELSE mean_ap

\* The value assigned to self.mean_ap when the denominator is not zero.
compute_mean_ap(weighted, ti, pr) ==
    float_truediv(numerator(weighted, ti, pr), FromInt(denominator(weighted, ti)))

\* Variant: the per-class print at every non-zero verbosity.
class_lines_any_verbosity(verbose, ap) ==
    IF verbose # 0 THEN [i \in 1..Len(ap) |-> <<"class", i - 1>>] ELSE <<>>

\* The per-class print of the loop, and the closing print.
class_lines(verbose, ap) ==
    IF verbose = 1 THEN [i \in 1..Len(ap) |-> <<"class", i - 1>>] ELSE <<>>

map_line(verbose) == IF verbose = 1 THEN << <<"mAP", -1>> >> ELSE <<>>

\* np.maximum.accumulate(precision[::-1])[::-1]: entry i is the maximum of
\* entries i .. end.
Max2(x, y) == IF x[1] * y[2] >= y[1] * x[2] THEN x ELSE y

RECURSIVE decreasing_max_precision(_)
decreasing_max_precision(p) ==
    IF Len(p) <= 1 THEN p
    ELSE LET rest == decreasing_max_precision(Tail(p))
         IN  <<Max2(p[1], rest[1])>> \o rest

Summary(kind, tag, of, value, step, curve) ==
    [kind |-> kind, tag |-> tag, of |-> of, value |-> value, step |-> step,
     curve |-> curve]

\* The first writer: scalar mAP, then one scalar per class when verbose == 1.
sink_scalars(verbose, ap, m, epoch) ==
    << Summary("scalar", "mAP", -1, m, epoch, <<>>) >> \o
    (IF verbose = 1
     THEN [i \in 1..Len(ap) |-> Summary("scalar", "AP_", i - 1, ap[i][1], epoch, <<>>)]
     ELSE <<>>)

\* The second writer: the precision-recall plot as an image.
sink_image(r, p, epoch) ==
    << Summary("image", "Precision Recall Curve Epoch ", epoch, FromInt(0), epoch,
               <<r, decreasing_max_precision(p)>>) >>

\* The host training loop reaches the end of an epoch and calls the
\* callback with that epoch's logs.
fit_epoch(l) ==
    /\ pc # "called"
    /\ epochs < MaxEpochs
    /\ pc' = "called"
    /\ epochs' = epochs + 1
    /\ caller_logs' = l
    /\ logs_before' = l
    /\ logs' = {}
    /\ raised' = ""
    /\ evaluated' = NoResult
    /\ printed' = <<>>
    /\ emitted' = <<>>
    /\ UNCHANGED <<config, recall, precision, mean_ap, completed_mean_ap>>

on_epoch_end(result) ==
    /\ pc = "called"
    /\ LET epoch == epochs - 1
           ap    == result.average_precisions
           ti    == total_instances_of(ap)
           pr    == precisions_of(ap)
           bound == bind_logs(caller_logs)
           lines == class_lines(config.verbose, ap)
       IN  /\ evaluated' = result
           /\ recall' = result.recall
           /\ precision' = result.precision
           /\ logs_before' = logs_before
           /\ IF denominator(config.weighted_average, ti) = 0
              THEN \* the division raises ZeroDivisionError; nothing after it runs
                   /\ pc' = "raised"
                   /\ raised' = "ZeroDivisionError"
                   /\ printed' = lines
                   /\ logs' = bound
                   /\ UNCHANGED <<mean_ap, emitted, caller_logs, completed_mean_ap>>
              ELSE \E m \in {compute_mean_ap(config.weighted_average, ti, pr)} :
                   /\ mean_ap' = m
                   /\ IF config.tensorboard
                      THEN \* both writers run, then
                           \* tf.summary(value=[tf.Summary.Value(...)]) raises
                           \* (TensorFlow 2, whose API the writers use, has
                           \* no tf.Summary, and tf.summary is a module)
                           /\ pc' = "raised"
                           /\ raised' = "AttributeError"
                           /\ printed' = lines
                           /\ emitted' = sink_scalars(config.verbose, ap, m, epoch)
                                   \o sink_image(result.recall, result.precision, epoch)
                           /\ logs' = bound
                           /\ UNCHANGED <<caller_logs, completed_mean_ap>>
                      ELSE \* logs['mAP'] = self.mean_ap, then the closing print
                           /\ pc' = "returned"
                           /\ raised' = ""
                           /\ printed' = lines \o map_line(config.verbose)
                           /\ emitted' = <<>>
                           /\ logs' = SetItem(bound, "mAP", m)
                           /\ caller_logs' = IF Truthy(caller_logs)
                                             THEN PyDict(SetItem(bound, "mAP", m))
                                             ELSE caller_logs
                           /\ completed_mean_ap' = m
    /\ UNCHANGED <<config, epochs>>

Next ==
    \/ \E l \in LogsArguments : fit_epoch(l)
    \/ \E result \in EvaluateResults : on_epoch_end(result)

Spec == Init /\ [][Next]_vars

\* ================================================================ claims
\* Reference definitions in the words of the specification, written over the
\* mapping evaluate() returned and independent of the handler's lists.
Done == pc \in {"returned", "raised"}

AP == evaluated.average_precisions

Aggregated == Done /\ raised # "ZeroDivisionError"

RECURSIVE SumCounts(_, _)
SumCounts(ap, k) == IF k = 0 THEN 0 ELSE SumCounts(ap, k - 1) + ap[k][2]

RECURSIVE SumAP(_, _)
SumAP(ap, k) ==
    IF k = 0 THEN FromInt(0)
    ELSE IF k = 1 THEN ap[1][1]
    ELSE float_add(SumAP(ap, k - 1), ap[k][1])

RECURSIVE SumWeightedAP(_, _)
SumWeightedAP(ap, k) ==
    IF k = 0 THEN FromInt(0)
    ELSE IF k = 1 THEN float_mul(FromInt(ap[1][2]), ap[1][1])
    ELSE float_add(SumWeightedAP(ap, k - 1), float_mul(FromInt(ap[k][2]), ap[k][1]))

Annotated(ap) == {i \in 1..Len(ap) : ap[i][2] > 0}

IsAnnotated(c) == c[2] > 0

\* sum(AP_i * count_i) / sum(count_i) over all classes.
WeightedMean(ap) ==
    float_truediv(SumWeightedAP(ap, Len(ap)), FromInt(SumCounts(ap, Len(ap))))

\* The arithmetic mean of AP over exactly the classes with annotations.
MeanOverAnnotated(ap) ==
    LET sel == SelectSeq(ap, IsAnnotated)
    IN  float_truediv(SumAP(sel, Len(sel)), FromInt(Len(sel)))

\* The sum of AP over all classes, divided by the number of annotated classes.
SumOverAllByAnnotated(ap) ==
    float_truediv(SumAP(ap, Len(ap)), FromInt(Cardinality(Annotated(ap))))

\* The metric as a function of the evaluation result and the flag alone.
MeanOf(weighted, ap) ==
    IF weighted THEN WeightedMean(ap) ELSE SumOverAllByAnnotated(ap)

SameCount(ap) ==
    /\ Len(ap) > 0
    /\ ap[1][2] > 0
    /\ \A i \in 1..Len(ap) : ap[i][2] = ap[1][2]

IsPowerOfTwo(n) == \E k \in 0..n : 2 ^ k = n

ClassLines(ap) == [i \in 1..Len(ap) |-> <<"class", i - 1>>]

\* C1: with weighted_average = False and at least one annotated class,
\* mean_ap is the arithmetic mean of AP over exactly the annotated classes;
\* a class with zero annotations contributes nothing, whatever its AP.
C1_UnweightedIsMeanOverAnnotated ==
    (Aggregated /\ ~config.weighted_average /\ Annotated(AP) # {})
        => mean_ap = MeanOverAnnotated(AP)

\* C2 as stated: with weighted_average = True and counts summing to more than
\* zero, mean_ap is sum(AP_i * count_i) / sum(count_i); and whenever all
\* classes share one positive count it equals the unweighted mAP.
C2_WeightedEqualsUnweightedOnSameCount ==
    (Aggregated /\ config.weighted_average)
        => /\ mean_ap = WeightedMean(AP)
           /\ SameCount(AP) => mean_ap = MeanOverAnnotated(AP)

\* C2 amended: mean_ap is sum(AP_i * count_i) / sum(count_i) evaluated in
\* floating point in mapping order; with one shared positive count that is a
\* power of two (the products AP_i * count_i are then exact) it equals the
\* unweighted mAP.
C2_WeightedMean ==
    (Aggregated /\ config.weighted_average)
        => /\ mean_ap = WeightedMean(AP)
           /\ (SameCount(AP) /\ IsPowerOfTwo(AP[1][2]))
                 => mean_ap = MeanOverAnnotated(AP)

C2_Witness ==
    /\ pc = "returned"
    /\ config.weighted_average
    /\ Len(AP) = 2
    /\ AP[1][1] # AP[2][1]
    /\ AP[1][2] = 2
    /\ AP[2][2] = 2
    /\ mean_ap = <<5, 8>>

\* C3: after a call that completes, the mapping that was passed has exactly
\* one more entry than before, "mAP" holds mean_ap, and every entry present
\* before is still present with its value.
C3_LogsGainExactlyMAP ==
    (pc = "returned" /\ ~logs_before.none)
        => /\ Cardinality(caller_logs.items) = Cardinality(logs_before.items) + 1
           /\ <<"mAP", mean_ap>> \in caller_logs.items
           /\ logs_before.items \subseteq caller_logs.items

\* C4: after a call that completes, the caller's own mapping, an empty one
\* included, contains "mAP" with the computed value.
C4_CallerObservesMAP ==
    (pc = "returned" /\ ~logs_before.none)
        => /\ "mAP" \in Keys(caller_logs.items)
           /\ Get(caller_logs.items, "mAP") = MeanOf(config.weighted_average, AP)

\* C5: with weighted_average = False, when every class has zero annotations
\* the call fails with a division by zero: it does not complete, and no mAP
\* value is produced.
C5_UnweightedAllZeroRaises ==
    (Done /\ ~config.weighted_average /\ Annotated(AP) = {})
        => /\ pc = "raised"
           /\ raised = "ZeroDivisionError"
           /\ caller_logs = logs_before
           /\ "mAP" \notin Keys(logs) \ Keys(logs_before.items)

C5_Witness ==
    /\ pc = "raised"
    /\ raised = "ZeroDivisionError"
    /\ ~config.weighted_average
    /\ Len(AP) = 2
    /\ AP[1][1] # AP[2][1]

\* C6: the sink does not change the metric: whether a tensorboard sink is
\* configured or not, a call whose aggregation succeeds completes and leaves
\* the same value, a function of the result and the flag, in logs["mAP"]
\* and in mean_ap.
C6_SinkDoesNotChangeMetric ==
    Aggregated
        => /\ pc = "returned"
           /\ mean_ap = MeanOf(config.weighted_average, AP)
           /\ <<"mAP", mean_ap>> \in logs

\* C7 as stated: at any non-zero verbosity a call that completes prints one
\* line per class and then the mAP line, at verbosity 0 nothing is printed,
\* and the verbosity changes neither mean_ap nor what goes to the sink.
C7_AnyVerbosityPrints ==
    /\ (pc = "returned" /\ config.verbose # 0)
          => printed = ClassLines(AP) \o << <<"mAP", -1>> >>
    /\ (Done /\ config.verbose = 0) => printed = <<>>
    /\ Aggregated => mean_ap = MeanOf(config.weighted_average, AP)
    /\ (Aggregated /\ config.tensorboard)
          => \A v \in 0..2 :
                emitted = sink_scalars(v, AP, mean_ap, epochs - 1)
                            \o sink_image(recall, precision, epochs - 1)

\* C7 amended: exactly at verbosity 1 a call that completes prints one line
\* per class and then the mAP line; at every other level nothing is
\* printed.  The verbosity does not change mean_ap or logs["mAP"], but the
\* sink receives the per-class AP scalars only at verbosity 1.
C7_VerbosityOne ==
    /\ (pc = "returned" /\ config.verbose = 1)
          => printed = ClassLines(AP) \o << <<"mAP", -1>> >>
    /\ (Done /\ config.verbose # 1) => printed = <<>>
    /\ Aggregated => mean_ap = MeanOf(config.weighted_average, AP)
    /\ pc = "returned" => <<"mAP", MeanOf(config.weighted_average, AP)>> \in logs
    /\ (Aggregated /\ config.tensorboard)
          => LET perClass == {i \in 1..Len(emitted) : emitted[i].tag = "AP_"}
             IN  Cardinality(perClass) = IF config.verbose = 1 THEN Len(AP) ELSE 0

C7_Witness ==
    /\ pc = "returned"
    /\ config.verbose = 1
    /\ Len(AP) = 2
    /\ Len(printed) = 3

\* C8: the fields a completed call leaves are those of that call's
\* evaluation result and the flag alone, whatever earlier epochs left, and
\* no step changes the configuration fields.
C8_DerivedAfresh ==
    /\ [](pc = "returned"
            => /\ mean_ap = MeanOf(config.weighted_average, AP)
               /\ recall = evaluated.recall
               /\ precision = evaluated.precision)
    /\ [][config' = config]_vars

C8_Witness ==
    /\ pc = "returned"
    /\ epochs = 2
    /\ completed_mean_ap = mean_ap
    /\ mean_ap = <<3, 4>>
    /\ Len(recall) = 1

\* C9: the weighted mode fails with a division by zero exactly when the
\* annotation counts sum to zero (all classes at zero, or no class), the
\* unweighted mode exactly when no class is annotated, and these are the
\* same inputs.
C9_ZeroDivisionIffNoAnnotations ==
    Done => /\ config.weighted_average
                  => ((raised = "ZeroDivisionError") <=> (SumCounts(AP, Len(AP)) = 0))
            /\ ~config.weighted_average
                  => ((raised = "ZeroDivisionError") <=> (Annotated(AP) = {}))
            /\ (SumCounts(AP, Len(AP)) = 0) <=> (Annotated(AP) = {})

C9_Witness ==
    /\ pc = "raised"
    /\ raised = "ZeroDivisionError"
    /\ config.weighted_average
    /\ Len(AP) = 2

\* C10: when the aggregation fails with a division by zero, no "mAP" entry
\* is written, nothing is emitted, mean_ap is the value of the last
\* completed epoch (or unset), and recall and precision already hold the
\* failing epoch's values.
C10_FailureKeepsLastCompleted ==
    (pc = "raised" /\ raised = "ZeroDivisionError")
        => /\ caller_logs = logs_before
           /\ "mAP" \notin Keys(logs) \ Keys(logs_before.items)
           /\ emitted = <<>>
           /\ mean_ap = completed_mean_ap
           /\ recall = evaluated.recall
           /\ precision = evaluated.precision

====
